---- MODULE Spec2Model ----
(***************************************************************************)
(* Student Management API: the two entry points of the repository, the     *)
(* authenticated API (students, courses, /auth) and server.js (students    *)
(* only, no auth), as one state machine over the MongoDB collections.      *)
(* Time is counted in hours.  An HTTP exchange is one step, except         *)
(* POST /auth/register, which is suspended at each of its three awaits.    *)
(***************************************************************************)
EXTENDS Integers, FiniteSets, Sequences, TLC

\* ---------------------------------------------------------------- bounds
MaxUsers == 2
MaxStudents == 2
MaxCourses == 1
MaxInflight == 2
MaxTime == 1
MaxTokens == 1

\* ------------------------------------------------------ program constants
SaltRounds == 10
TokenTTL == 1
JWT_SECRET == "secret"

Undefined == "undefined"
Unset == "undefined"
StudentDB == "studentDB"
App == "part_000"
Server == "server.js"

StudentFields ==
  {"firstName", "lastName", "email", "course", "year", "registrationNumber"}
CourseFields ==
  {"name", "code", "instructor", "credits", "semester", "department", "year"}

\* JavaScript truthiness of a body field: undefined and "" are falsy.
Truthy(v) == v \notin {Undefined, ""}

\* ----------------------------------------------------------- identifiers
\* Path ids are numbers: 0 stands for a string that is no ObjectId, the
\* positive ones for 24-hex strings.
MalformedId == 0
ObjectIdIsValid(id) == id >= 1

\* new require("mongodb").ObjectId(id) of server.js: require is called as a
\* constructor and yields the module, whose ObjectId is then called without
\* new.  A driver whose ObjectId is a class throws on that call for every
\* id; a driver whose ObjectId is a function constructs, and throws on a
\* malformed id.
CalledObjectId(callable, id) ==
  IF ~callable THEN "Class constructor ObjectId cannot be invoked without 'new'"
  ELSE IF ~ObjectIdIsValid(id) THEN "input must be a 24 character hex string"
  ELSE "ok"

\* --------------------------------------------------------------- bcrypt
BcryptHash(password, rounds) == <<"bcrypt", rounds, password>>

\* bcrypt.compare: rejects when data is missing, else answers the match.
BcryptCompare(data, hash) ==
  IF data = Undefined THEN "throws"
  ELSE IF hash = BcryptHash(data, hash[2]) THEN "true"
  ELSE "false"

\* ------------------------------------------------------------------ jwt
\* A token is <<"jwt", key, userId, exp>>; other header parts are 1-tuples.
JwtSign(userId, secret, t) == <<"jwt", secret, userId, t + TokenTTL>>

JwtVerify(token, secret, t) ==
  /\ Len(token) = 4
  /\ token[1] = "jwt"
  /\ token[2] = secret
  /\ t < token[4]

Forged == <<"jwt", "other", 1, MaxTime + TokenTTL + 1>>
Garbage == <<"garbage">>

\* ------------------------------------------------------------- requests
\* The Authorization header, as the parts authHeader.split(" ") yields.
NoHeader == [present |-> FALSE, parts |-> <<>>]
Header(parts) == [present |-> TRUE, parts |-> parts]
Bearer(token) == Header(<< <<"Bearer">>, token >>)
Basic(token) == Header(<< <<"Basic">>, token >>)
EmptyHeader == Header(<< <<"">> >>)

NoId == MalformedId - 1
NoBody == [none |-> Undefined]
NoPayload == [none |-> Undefined]

VARIABLES
  program,          \* which entry point runs
  objectIdCallable, \* whether the installed driver's ObjectId is callable
  pc,               \* startServer: "connectDB", "listen", "serving"
  db,               \* the process-wide handle
  users, students, courses,   \* the collections: id -> document
  inserted,         \* ObjectIds each collection has handed out
  now,              \* the clock
  issued,           \* tokens login has returned
  reg,              \* POST /auth/register requests in flight
  last              \* the last exchange: request and response

vars == <<program, objectIdCallable, pc, db, users, students, courses,
          inserted, now, issued, reg, last>>

Slots == 1..MaxInflight
Idle == [pc |-> "idle", email |-> Undefined, password |-> Undefined,
         hashed |-> <<>>]

NoExchange ==
  [route |-> "none", header |-> NoHeader, id |-> NoId, body |-> NoBody,
   next |-> FALSE, status |-> 0, message |-> "", payload |-> NoPayload]

Init ==
  /\ program \in {App, Server}
  /\ objectIdCallable \in BOOLEAN
  /\ pc = "connectDB"
  /\ db = Unset
  /\ users = << >>
  /\ students = << >>
  /\ courses = << >>
  /\ inserted = [users |-> 0, students |-> 0, courses |-> 0]
  /\ now = 0
  /\ issued = {}
  /\ reg = [s \in Slots |-> Idle]
  /\ last = NoExchange

\* -------------------------------------------------------------- startup
\* connectDB: the connection succeeds and db is set, or it fails, the error
\* is logged and db stays unset.  Either way connectDB returns.
ConnectDB ==
  /\ pc = "connectDB"
  /\ \E connected \in BOOLEAN :
       db' = IF connected THEN StudentDB ELSE Unset
  /\ pc' = "listen"
  /\ UNCHANGED <<program, objectIdCallable, users, students, courses,
                 inserted, now, issued, reg, last>>

\* startServer after the await: app.listen.
Listen ==
  /\ pc = "listen"
  /\ pc' = "serving"
  /\ UNCHANGED <<program, objectIdCallable, db, users, students, courses,
                 inserted, now, issued, reg, last>>

Tick ==
  /\ now < MaxTime
  /\ now' = now + 1
  /\ UNCHANGED <<program, objectIdCallable, pc, db, users, students, courses,
                 inserted, issued, reg, last>>

\* ---------------------------------------------------------- collections
DbError == "Cannot read properties of undefined (reading 'collection')"

FindByEmail(coll, email) == {u \in DOMAIN coll : coll[u].email = email}

InsertOne(coll, id, doc) ==
  [k \in DOMAIN coll \cup {id} |-> IF k = id THEN doc ELSE coll[k]]

ReplaceOne(coll, id, doc) == [coll EXCEPT ![id] = doc]

\* deleteMany with a filter that matches every document
DeleteEvery(coll, id) == [k \in {} |-> coll[k]]

DeleteOne(coll, id) == [k \in DOMAIN coll \ {id} |-> coll[k]]

\* ------------------------------------------------------------ auth gate
\* authMiddleware: what it answers, and whether it calls next().
authMiddleware(header, t) ==
  IF ~header.present \/ header = EmptyHeader
  THEN [next |-> FALSE, status |-> 401, message |-> "No token provided"]
  ELSE LET token == IF Len(header.parts) >= 2 THEN header.parts[2]
                    ELSE <<Undefined>>
       IN IF JwtVerify(token, JWT_SECRET, t)
          THEN [next |-> TRUE, status |-> 0, message |-> ""]
          ELSE [next |-> FALSE, status |-> 401, message |-> "Invalid token"]

Exchange(route, header, id, body, next, status, message, payload) ==
  [route |-> route, header |-> header, id |-> id, body |-> body,
   next |-> next, status |-> status, message |-> message,
   payload |-> payload]

\* A route without the gate: the handler always runs.
Open(route, id, body, status, message, payload) ==
  Exchange(route, NoHeader, id, body, TRUE, status, message, payload)

\* ------------------------------------------------------- /auth/register
RegisterRoute == "POST /auth/register"
Credentials(email, password) == [email |-> email, password |-> password]

\* Lines 73-79: the body is checked and findOne is sent; with db unset the
\* call throws and the catch answers 500.
RegisterReceive(s, body) ==
  /\ pc = "serving"
  /\ program = App
  /\ reg[s].pc = "idle"
  /\ IF ~Truthy(body.email) \/ ~Truthy(body.password)
     THEN /\ last' = Open(RegisterRoute, NoId, body, 400,
                          "Email and password required", NoPayload)
          /\ reg' = reg
     ELSE IF db = Unset
     THEN /\ last' = Open(RegisterRoute, NoId, body, 500, DbError, NoPayload)
          /\ reg' = reg
     ELSE /\ reg' = [reg EXCEPT ![s] = [pc |-> "findOne",
                       email |-> body.email, password |-> body.password,
                       hashed |-> <<>>]]
          /\ last' = last
  /\ UNCHANGED <<program, objectIdCallable, pc, db, users, students, courses,
                 inserted, now, issued>>

\* Lines 79-82: findOne answers.
RegisterFindOne(s) ==
  /\ reg[s].pc = "findOne"
  /\ IF FindByEmail(users, reg[s].email) # {}
     THEN /\ last' = Open(RegisterRoute, NoId,
                          Credentials(reg[s].email, reg[s].password), 400,
                          "User already exists", NoPayload)
          /\ reg' = [reg EXCEPT ![s] = Idle]
     ELSE /\ reg' = [reg EXCEPT ![s].pc = "hash"]
          /\ last' = last
  /\ UNCHANGED <<program, objectIdCallable, pc, db, users, students, courses,
                 inserted, now, issued>>

\* Line 84: bcrypt.hash answers.
RegisterHash(s) ==
  /\ reg[s].pc = "hash"
  /\ reg' = [reg EXCEPT ![s].pc = "insertOne",
                        ![s].hashed = BcryptHash(reg[s].password, SaltRounds)]
  /\ UNCHANGED <<program, objectIdCallable, pc, db, users, students, courses,
                 inserted, now, issued, last>>

\* insertOne against a unique index on email: a duplicate key is an error.
RegisterInsertOneUnique(s) ==
  /\ reg[s].pc = "insertOne"
  /\ inserted.users < MaxUsers
  /\ LET id == inserted.users + 1
         user == [email |-> reg[s].email, password |-> reg[s].hashed,
                  createdAt |-> now]
         taken == FindByEmail(users, reg[s].email) # {}
     IN /\ users' = IF taken THEN users ELSE InsertOne(users, id, user)
        /\ inserted' = IF taken THEN inserted
                       ELSE [inserted EXCEPT !.users = id]
        /\ last' = IF taken
                   THEN Open(RegisterRoute, NoId,
                             Credentials(reg[s].email, reg[s].password), 500,
                             "E11000 duplicate key error", NoPayload)
                   ELSE Open(RegisterRoute, NoId,
                             Credentials(reg[s].email, reg[s].password), 201,
                             "User created", [id |-> id])
  /\ reg' = [reg EXCEPT ![s] = Idle]
  /\ UNCHANGED <<program, objectIdCallable, pc, db, students, courses, now,
                 issued>>

\* Lines 86-94: insertOne answers.
RegisterInsertOne(s) ==
  /\ reg[s].pc = "insertOne"
  /\ inserted.users < MaxUsers
  /\ LET id == inserted.users + 1
         user == [email |-> reg[s].email, password |-> reg[s].hashed,
                  createdAt |-> now]
     IN /\ users' = InsertOne(users, id, user)
        /\ inserted' = [inserted EXCEPT !.users = id]
        /\ last' = Open(RegisterRoute, NoId,
                        Credentials(reg[s].email, reg[s].password), 201,
                        "User created", [id |-> id])
  /\ reg' = [reg EXCEPT ![s] = Idle]
  /\ UNCHANGED <<program, objectIdCallable, pc, db, students, courses, now,
                 issued>>

\* ---------------------------------------------------------- /auth/login
LoginRoute == "POST /auth/login"
NoUser == 0

\* Lines 106-117, given the user findOne returned (NoUser: none).
LoginReply(body, user, t) ==
  IF user = NoUser
  THEN [status |-> 401, message |-> "Invalid credentials", token |-> <<>>]
  ELSE LET isMatch == BcryptCompare(body.password, users[user].password)
       IN IF isMatch = "throws"
          THEN [status |-> 500, message |-> "data and hash arguments required",
                token |-> <<>>]
          ELSE IF isMatch = "false"
          THEN [status |-> 401, message |-> "Invalid credentials",
                token |-> <<>>]
          ELSE [status |-> 200, message |-> "",
                token |-> JwtSign(user, JWT_SECRET, t)]

Login(body) ==
  /\ pc = "serving"
  /\ program = App
  /\ IF db = Unset
     THEN /\ last' = Open(LoginRoute, NoId, body, 500, DbError, NoPayload)
          /\ issued' = issued
     ELSE LET found == FindByEmail(users, body.email)
          IN \E user \in (IF found = {} THEN {NoUser} ELSE found) :
               LET r == LoginReply(body, user, now)
               IN /\ issued' = IF r.status = 200 THEN issued \cup {r.token}
                               ELSE issued
                  /\ Cardinality(issued') <= MaxTokens
                  /\ last' = Open(LoginRoute, NoId, body, r.status, r.message,
                                  IF r.status = 200 THEN [token |-> r.token]
                                  ELSE NoPayload)
  /\ UNCHANGED <<program, objectIdCallable, pc, db, users, students, courses,
                 inserted, now, reg>>

\* --------------------------------------------------------- CRUD replies
\* req.body.<k>: undefined when the body has no such field.
Field(body, k) == IF k \in DOMAIN body THEN body[k] ELSE Undefined

Reply(status, message, payload, coll) ==
  [status |-> status, message |-> message, payload |-> payload,
   coll |-> coll]

\* find().toArray()
ListReply(coll) ==
  IF db = Unset THEN Reply(500, DbError, NoPayload, coll)
  ELSE Reply(200, "", [list |-> coll], coll)

\* isValid, findOne by _id
ByIdReply(coll, id, invalid, notFound) ==
  IF ~ObjectIdIsValid(id) THEN Reply(400, invalid, NoPayload, coll)
  ELSE IF db = Unset THEN Reply(500, DbError, NoPayload, coll)
  ELSE IF id \notin DOMAIN coll THEN Reply(404, notFound, NoPayload, coll)
  ELSE Reply(200, "", [id |-> id, doc |-> coll[id]], coll)

\* the field check, insertOne
PostReply(coll, doc, fields, id, created) ==
  IF \E k \in fields : ~Truthy(doc[k])
  THEN Reply(400, "All fields are required", NoPayload, coll)
  ELSE IF db = Unset THEN Reply(500, DbError, NoPayload, coll)
  ELSE Reply(201, created, [id |-> id], InsertOne(coll, id, doc))

\* the field check, replaceOne by _id
ReplaceReply(coll, id, doc, fields, notFound) ==
  IF \E k \in fields : ~Truthy(doc[k])
  THEN Reply(400, "All fields are required", NoPayload, coll)
  ELSE IF db = Unset THEN Reply(500, DbError, NoPayload, coll)
  ELSE IF id \notin DOMAIN coll THEN Reply(404, notFound, NoPayload, coll)
  ELSE Reply(204, "", NoPayload, ReplaceOne(coll, id, doc))

\* isValid, then the above
PutReply(coll, id, doc, fields, invalid, notFound) ==
  IF ~ObjectIdIsValid(id) THEN Reply(400, invalid, NoPayload, coll)
  ELSE ReplaceReply(coll, id, doc, fields, notFound)

\* deleteOne by _id
RemoveReply(coll, id, notFound) ==
  IF db = Unset THEN Reply(500, DbError, NoPayload, coll)
  ELSE IF id \notin DOMAIN coll THEN Reply(404, notFound, NoPayload, coll)
  ELSE Reply(204, "", NoPayload, DeleteOne(coll, id))

\* isValid, then the above
DeleteReply(coll, id, invalid, notFound) ==
  IF ~ObjectIdIsValid(id) THEN Reply(400, invalid, NoPayload, coll)
  ELSE RemoveReply(coll, id, notFound)

\* A gated route: the gate answers before the id and the body are read.
Gated(route, header, gate, id, body, r) ==
  IF gate.next
  THEN Exchange(route, header, id, body, TRUE, r.status, r.message, r.payload)
  ELSE Exchange(route, header, NoId, NoBody, FALSE, gate.status, gate.message,
                NoPayload)

\* ------------------------------------------------------------- students
NewStudent(body, t) ==
  [k \in StudentFields \cup {"createdAt"} |->
     IF k = "createdAt" THEN t ELSE Field(body, k)]

UpdatedStudent(body) == [k \in StudentFields |-> Field(body, k)]

Root ==
  /\ pc = "serving"
  /\ last' = Open("GET /", NoId, NoBody, 200,
                  "Student Management API is running", NoPayload)
  /\ UNCHANGED <<program, objectIdCallable, pc, db, users, students, courses,
                 inserted, now, issued, reg>>

GetStudents ==
  /\ pc = "serving"
  /\ program = App
  /\ LET r == ListReply(students)
     IN last' = Open("GET /students", NoId, NoBody, r.status, r.message,
                     r.payload)
  /\ UNCHANGED <<program, objectIdCallable, pc, db, users, students, courses,
                 inserted, now, issued, reg>>

GetStudentById(id) ==
  /\ pc = "serving"
  /\ program = App
  /\ LET r == ByIdReply(students, id, "Invalid student ID",
                        "Student not found")
     IN last' = Open("GET /students/:id", id, NoBody, r.status, r.message,
                     r.payload)
  /\ UNCHANGED <<program, objectIdCallable, pc, db, users, students, courses,
                 inserted, now, issued, reg>>

PostStudents(header, body) ==
  /\ pc = "serving"
  /\ program = App
  /\ LET gate == authMiddleware(header, now)
         r == PostReply(students, NewStudent(body, now), StudentFields,
                        inserted.students + 1, "Student created")
     IN /\ gate.next /\ r.status = 201 => inserted.students < MaxStudents
        /\ last' = Gated("POST /students", header, gate, NoId, body, r)
        /\ students' = IF gate.next THEN r.coll ELSE students
        /\ inserted' = IF gate.next /\ r.status = 201
                       THEN [inserted EXCEPT !.students = @ + 1]
                       ELSE inserted
  /\ UNCHANGED <<program, objectIdCallable, pc, db, users, courses, now,
                 issued, reg>>

PutStudent(header, id, body) ==
  /\ pc = "serving"
  /\ program = App
  /\ LET gate == authMiddleware(header, now)
         r == PutReply(students, id, UpdatedStudent(body), StudentFields,
                       "Invalid student ID", "Student not found")
     IN /\ last' = Gated("PUT /students/:id", header, gate, id, body, r)
        /\ students' = IF gate.next THEN r.coll ELSE students
  /\ UNCHANGED <<program, objectIdCallable, pc, db, users, courses, inserted,
                 now, issued, reg>>

DeleteStudent(header, id) ==
  /\ pc = "serving"
  /\ program = App
  /\ LET gate == authMiddleware(header, now)
         r == DeleteReply(students, id, "Invalid student ID",
                          "Student not found")
     IN /\ last' = Gated("DELETE /students/:id", header, gate, id, NoBody, r)
        /\ students' = IF gate.next THEN r.coll ELSE students
  /\ UNCHANGED <<program, objectIdCallable, pc, db, users, courses, inserted,
                 now, issued, reg>>

\* -------------------------------------------------------------- courses
NewCourse(body) == [k \in CourseFields |-> Field(body, k)]

GetCourses ==
  /\ pc = "serving"
  /\ program = App
  /\ LET r == ListReply(courses)
     IN last' = Open("GET /courses", NoId, NoBody, r.status, r.message,
                     r.payload)
  /\ UNCHANGED <<program, objectIdCallable, pc, db, users, students, courses,
                 inserted, now, issued, reg>>

GetCourseById(id) ==
  /\ pc = "serving"
  /\ program = App
  /\ LET r == ByIdReply(courses, id, "Invalid course ID", "Course not found")
     IN last' = Open("GET /courses/:id", id, NoBody, r.status, r.message,
                     r.payload)
  /\ UNCHANGED <<program, objectIdCallable, pc, db, users, students, courses,
                 inserted, now, issued, reg>>

PostCourses(header, body) ==
  /\ pc = "serving"
  /\ program = App
  /\ LET gate == authMiddleware(header, now)
         r == PostReply(courses, NewCourse(body), CourseFields,
                        inserted.courses + 1, "Course created")
     IN /\ gate.next /\ r.status = 201 => inserted.courses < MaxCourses
        /\ last' = Gated("POST /courses", header, gate, NoId, body, r)
        /\ courses' = IF gate.next THEN r.coll ELSE courses
        /\ inserted' = IF gate.next /\ r.status = 201
                       THEN [inserted EXCEPT !.courses = @ + 1]
                       ELSE inserted
  /\ UNCHANGED <<program, objectIdCallable, pc, db, users, students, now,
                 issued, reg>>

PutCourse(header, id, body) ==
  /\ pc = "serving"
  /\ program = App
  /\ LET gate == authMiddleware(header, now)
         r == PutReply(courses, id, NewCourse(body), CourseFields,
                       "Invalid course ID", "Course not found")
     IN /\ last' = Gated("PUT /courses/:id", header, gate, id, body, r)
        /\ courses' = IF gate.next THEN r.coll ELSE courses
  /\ UNCHANGED <<program, objectIdCallable, pc, db, users, students, inserted,
                 now, issued, reg>>

DeleteCourse(header, id) ==
  /\ pc = "serving"
  /\ program = App
  /\ LET gate == authMiddleware(header, now)
         r == DeleteReply(courses, id, "Invalid course ID",
                          "Course not found")
     IN /\ last' = Gated("DELETE /courses/:id", header, gate, id, NoBody, r)
        /\ courses' = IF gate.next THEN r.coll ELSE courses
  /\ UNCHANGED <<program, objectIdCallable, pc, db, users, students, inserted,
                 now, issued, reg>>

\* ------------------------------------------------------------ server.js
ServerGetStudents ==
  /\ pc = "serving"
  /\ program = Server
  /\ LET r == ListReply(students)
     IN last' = Open("GET /students", NoId, NoBody, r.status, r.message,
                     r.payload)
  /\ UNCHANGED <<program, objectIdCallable, pc, db, users, students, courses,
                 inserted, now, issued, reg>>

ServerPostStudents(body) ==
  /\ pc = "serving"
  /\ program = Server
  /\ LET r == PostReply(students, NewStudent(body, now), StudentFields,
                        inserted.students + 1, "Student created successfully")
     IN /\ r.status = 201 => inserted.students < MaxStudents
        /\ last' = Open("POST /students", NoId, body, r.status, r.message,
                        r.payload)
        /\ students' = r.coll
        /\ inserted' = IF r.status = 201
                       THEN [inserted EXCEPT !.students = @ + 1]
                       ELSE inserted
  /\ UNCHANGED <<program, objectIdCallable, pc, db, users, courses, now,
                 issued, reg>>

ServerPutStudent(id, body) ==
  /\ pc = "serving"
  /\ program = Server
  /\ LET studentId == CalledObjectId(objectIdCallable, id)
         r == IF studentId # "ok"
              THEN Reply(500, studentId, NoPayload, students)
              ELSE ReplaceReply(students, id, UpdatedStudent(body),
                                StudentFields, "Student not found")
     IN /\ last' = Open("PUT /students/:id", id, body, r.status, r.message,
                        r.payload)
        /\ students' = r.coll
  /\ UNCHANGED <<program, objectIdCallable, pc, db, users, courses, inserted,
                 now, issued, reg>>

ServerDeleteStudent(id) ==
  /\ pc = "serving"
  /\ program = Server
  /\ LET studentId == CalledObjectId(objectIdCallable, id)
         r == IF studentId # "ok"
              THEN Reply(500, studentId, NoPayload, students)
              ELSE RemoveReply(students, id, "Student not found")
     IN /\ last' = Open("DELETE /students/:id", id, NoBody, r.status,
                        r.message, r.payload)
        /\ students' = r.coll
  /\ UNCHANGED <<program, objectIdCallable, pc, db, users, courses, inserted,
                 now, issued, reg>>

\* --------------------------------------------------------------- inputs
Emails == {"a@b.com", "c@d.com"}
Passwords == {"pw", "other"}

FullBody(fields, v) == [k \in fields |-> v]
Without(body, k) == [f \in DOMAIN body \ {k} |-> body[f]]
Blank(body, k) == [body EXCEPT ![k] = ""]

\* Every way of failing the field check by one field.
Incomplete(fields, v) ==
  {Without(FullBody(fields, v), k) : k \in fields}
    \cup {Blank(FullBody(fields, v), k) : k \in fields}

StudentIds == MalformedId..MaxStudents
CourseIds == MalformedId..MaxCourses

IssuedHeaders == {Bearer(t) : t \in issued}

Headers ==
  {NoHeader, EmptyHeader, Bearer(Forged), Bearer(Garbage),
   Header(<< <<"Bearer">> >>)}
    \cup IssuedHeaders
    \cup {Basic(t) : t \in issued}
    \cup {Header(<<t>>) : t \in issued}
    \cup {Header(<< <<"Bearer">>, <<"">>, t >>) : t \in issued}

OneAccount == {Credentials("a@b.com", "pw")}

\* Registrations with and without each field; logins also with a password
\* that was never registered.
RegisterBodies ==
  {Credentials(e, p) : e \in Emails \cup {Undefined}, p \in {"pw", Undefined}}

LoginBodies ==
  {Credentials(e, p) : e \in Emails \cup {Undefined},
                       p \in Passwords \cup {Undefined}}

\* ---------------------------------------------------------------- steps
Startup == ConnectDB \/ Listen

RegisterProgress(slots) ==
  \/ \E s \in slots : RegisterFindOne(s)
  \/ \E s \in slots : RegisterHash(s)
  \/ \E s \in slots : RegisterInsertOne(s)

Accounts(slots, registered, tried) ==
  \/ \E s \in slots, body \in registered : RegisterReceive(s, body)
  \/ RegisterProgress(slots)
  \/ \E body \in tried : Login(body)

StudentRoutes(headers, ids, posted, put) ==
  \/ GetStudents
  \/ \E id \in ids : GetStudentById(id)
  \/ \E h \in headers, body \in posted : PostStudents(h, body)
  \/ \E h \in headers, id \in ids, body \in put : PutStudent(h, id, body)
  \/ \E h \in headers, id \in ids : DeleteStudent(h, id)

CourseRoutes(headers, ids, posted, put) ==
  \/ GetCourses
  \/ \E id \in ids : GetCourseById(id)
  \/ \E h \in headers, body \in posted : PostCourses(h, body)
  \/ \E h \in headers, id \in ids, body \in put : PutCourse(h, id, body)
  \/ \E h \in headers, id \in ids : DeleteCourse(h, id)

ServerRoutes(ids, posted, put) ==
  \/ ServerGetStudents
  \/ \E body \in posted : ServerPostStudents(body)
  \/ \E id \in ids, body \in put : ServerPutStudent(id, body)
  \/ \E id \in ids : ServerDeleteStudent(id)

\* The record lifecycle, within the hour after startup (the clock moves in
\* NextGate): one account, requests with no header or with a token login
\* issued, records created with "a" and replaced with "b".
Next ==
  \/ Startup
  \/ Root
  \/ Accounts({1}, OneAccount, OneAccount)
  \/ StudentRoutes({NoHeader} \cup IssuedHeaders, StudentIds,
                   {FullBody(StudentFields, "a"),
                    Without(FullBody(StudentFields, "a"), "year")},
                   {FullBody(StudentFields, "b"),
                    Without(FullBody(StudentFields, "b"), "year")})
  \/ CourseRoutes({NoHeader} \cup IssuedHeaders, CourseIds,
                  {FullBody(CourseFields, "a"),
                   Without(FullBody(CourseFields, "a"), "year")},
                  {FullBody(CourseFields, "b"),
                   Without(FullBody(CourseFields, "b"), "year")})
  \/ ServerRoutes(StudentIds,
                  {FullBody(StudentFields, "a"),
                   Without(FullBody(StudentFields, "a"), "year")},
                  {FullBody(StudentFields, "b"),
                   Without(FullBody(StudentFields, "b"), "year")})

Spec == Init /\ [][Next]_vars

\* The gate: every shape of header, on requests that are otherwise complete.
NextGate ==
  \/ Startup
  \/ Tick
  \/ Accounts({1}, OneAccount, OneAccount)
  \/ StudentRoutes(Headers, {MalformedId, 1},
                   {FullBody(StudentFields, "a")},
                   {FullBody(StudentFields, "b")})
  \/ CourseRoutes(Headers, {MalformedId, 1},
                  {FullBody(CourseFields, "a")},
                  {FullBody(CourseFields, "b")})
  \/ ServerRoutes({MalformedId, 1}, {FullBody(StudentFields, "a")},
                  {FullBody(StudentFields, "b")})

SpecGate == Init /\ [][NextGate]_vars

\* The field check: every incomplete body.
NextFields ==
  \/ Startup
  \/ Accounts({1}, OneAccount, OneAccount)
  \/ StudentRoutes(IssuedHeaders, {1},
                   {FullBody(StudentFields, "a")}
                     \cup Incomplete(StudentFields, "a"),
                   {FullBody(StudentFields, "b")}
                     \cup Incomplete(StudentFields, "b"))
  \/ CourseRoutes(IssuedHeaders, {1},
                  {FullBody(CourseFields, "a")}
                    \cup Incomplete(CourseFields, "a"),
                  {FullBody(CourseFields, "b")}
                    \cup Incomplete(CourseFields, "b"))
  \/ ServerRoutes({1},
                  {FullBody(StudentFields, "a")}
                    \cup Incomplete(StudentFields, "a"),
                  {FullBody(StudentFields, "b")}
                    \cup Incomplete(StudentFields, "b"))

SpecFields == Init /\ [][NextFields]_vars

\* The accounts: overlapping registrations and logins of the authenticated
\* API.
InitApp == Init /\ program = App

NextAccounts ==
  \/ Startup
  \/ Accounts(Slots, RegisterBodies, LoginBodies)

SpecAccounts == InitApp /\ [][NextAccounts]_vars

\* Serialized: a registration is received only when none is in flight.
NextSerial ==
  \/ Startup
  \/ /\ \A s \in Slots : reg[s].pc = "idle"
     /\ \E s \in Slots, body \in RegisterBodies : RegisterReceive(s, body)
  \/ RegisterProgress(Slots)
  \/ \E body \in LoginBodies : Login(body)

SpecSerial == InitApp /\ [][NextSerial]_vars

\* ---------------------------------------------------------------- claims
StudentWrites ==
  {"POST /students", "PUT /students/:id", "DELETE /students/:id"}
CourseWrites == {"POST /courses", "PUT /courses/:id", "DELETE /courses/:id"}
StudentById == {"GET /students/:id", "PUT /students/:id",
                "DELETE /students/:id"}
CourseById == {"GET /courses/:id", "PUT /courses/:id", "DELETE /courses/:id"}

Complete(body, fields) == \A k \in fields : Truthy(Field(body, k))
OnePerEmail(coll) ==
  \A u, v \in DOMAIN coll : coll[u].email = coll[v].email => u = v
Extends(coll, new, id) ==
  /\ DOMAIN new = DOMAIN coll \cup {id}
  /\ id \notin DOMAIN coll
  /\ \A k \in DOMAIN coll : new[k] = coll[k]

\* C1: on every write route of students and courses, a request with no
\* Authorization header is answered 401 and changes neither collection.
C1_NoHeaderNoWrite ==
  [][last'.route \in StudentWrites \cup CourseWrites
       /\ ~last'.header.present
     => /\ last'.status = 401
        /\ students' = students
        /\ courses' = courses]_vars

\* C2: the gate calls the handler exactly for "Bearer <token>" with a token
\* login issued less than an hour ago; no header (or an empty one) is
\* answered 401 "No token provided", every other header 401 "Invalid token".
C2_GateIffBearer ==
  [][last' # last /\ program = App
       /\ last'.route \in StudentWrites \cup CourseWrites
     => LET h == last'.header
            missing == ~h.present \/ h = EmptyHeader
            valid == /\ ~missing
                     /\ Len(h.parts) = 2
                     /\ h.parts[1] = <<"Bearer">>
                     /\ h.parts[2] \in issued
                     /\ now < h.parts[2][4]
        IN /\ last'.next <=> valid
           /\ missing
                => last'.status = 401 /\ last'.message = "No token provided"
           /\ ~missing /\ ~valid
                => last'.status = 401 /\ last'.message = "Invalid token"]_vars

\* C3: with registrations serialized, no two users share an email; a
\* registration for a stored email is answered 400 "User already exists"
\* and inserts nothing; one with email and password for an unstored email
\* is answered 201 and inserts exactly one user.
C3_SerializedRegister ==
  [][/\ OnePerEmail(users')
     /\ last' # last /\ last'.route = RegisterRoute
          /\ Truthy(last'.body.email) /\ Truthy(last'.body.password)
        => IF FindByEmail(users, last'.body.email) # {}
           THEN /\ last'.status = 400
                /\ last'.message = "User already exists"
                /\ users' = users
           ELSE /\ last'.status = 201
                /\ Extends(users, users', last'.payload.id)
                /\ users'[last'.payload.id].email = last'.body.email]_vars

\* C4: the existence check and the insert are separate steps: a check
\* passes whenever the email is not stored yet, whatever is in flight, and
\* an insert is answered 201 and adds a user whatever is stored by then, so
\* two overlapping registrations of one email store two users.
C4_CheckThenInsert ==
  [][\A s \in Slots :
       /\ reg[s].pc = "findOne" /\ reg'[s] # reg[s]
            /\ FindByEmail(users, reg[s].email) = {}
          => reg'[s].pc = "hash" /\ users' = users
       /\ reg[s].pc = "insertOne" /\ reg'[s] # reg[s]
          => /\ last'.route = RegisterRoute
             /\ last'.status = 201
             /\ last'.body.email = reg[s].email
             /\ Extends(users, users', last'.payload.id)
             /\ users'[last'.payload.id].email = reg[s].email]_vars

C4_DuplicateStored ==
  /\ \E u, v \in DOMAIN users :
       u # v /\ users[u].email = users[v].email
  /\ last.route = RegisterRoute
  /\ last.status = 201

\* C5: a failed login for a stored email is answered as one for an unknown
\* email is: 401 "Invalid credentials", whatever the password field holds.
C5_UniformLoginFailure ==
  [][last' # last /\ last'.route = LoginRoute /\ last'.status # 200
       /\ FindByEmail(users, last'.body.email) # {}
     => last'.status = 401 /\ last'.message = "Invalid credentials"]_vars

\* C6: on the id-addressed routes, once past the gate and with a complete
\* body on PUT, a malformed id is answered 400 and a well-formed id that
\* matches no record 404, and neither changes a collection.
C6_BadIdAnswered ==
  [][last' # last /\ last'.next
       /\ last'.route \in StudentById \cup CourseById
       /\ (last'.route = "PUT /students/:id"
             => Complete(last'.body, StudentFields))
       /\ (last'.route = "PUT /courses/:id"
             => Complete(last'.body, CourseFields))
     => LET coll == IF last'.route \in StudentById THEN students
                    ELSE courses
        IN /\ last'.id = MalformedId
                => /\ last'.status = 400
                   /\ students' = students /\ courses' = courses
           /\ last'.id # MalformedId /\ last'.id \notin DOMAIN coll
                => /\ last'.status = 404
                   /\ students' = students /\ courses' = courses]_vars

\* C7: a POST or a PUT (with a well-formed id) that reaches the handler
\* with a required field absent or falsy is answered 400 "All fields are
\* required" and changes neither collection.
C7_IncompleteRejected ==
  [][last' # last /\ last'.next
       /\ \/ /\ last'.route \in {"POST /students", "PUT /students/:id"}
             /\ ~Complete(last'.body, StudentFields)
          \/ /\ last'.route \in {"POST /courses", "PUT /courses/:id"}
             /\ ~Complete(last'.body, CourseFields)
       /\ last'.id # MalformedId
     => /\ last'.status = 400
        /\ last'.message = "All fields are required"
        /\ students' = students
        /\ courses' = courses]_vars

\* What a step may do to one collection and answer about it.
Lifecycle(coll, new, used, fields, post, get, put, delete) ==
  /\ last' # last /\ last'.route = post /\ last'.next
       /\ Complete(last'.body, fields)
     => /\ last'.status = 201
        /\ last'.payload.id > used
        /\ Extends(coll, new, last'.payload.id)
        /\ \A k \in fields : new[last'.payload.id][k] = last'.body[k]
  /\ last' # last /\ last'.route = get /\ last'.id \in 1..used
     => IF last'.id \in DOMAIN coll
        THEN /\ last'.status = 200
             /\ last'.payload.id = last'.id
             /\ last'.payload.doc = coll[last'.id]
        ELSE last'.status = 404
  /\ \A id \in DOMAIN coll :
       id \notin DOMAIN new \/ new[id] # coll[id]
       => last'.route \in {put, delete} /\ last'.next /\ last'.id = id
  /\ last' # last /\ last'.route = delete /\ last'.next
       /\ last'.id \in DOMAIN coll
     => /\ last'.status = 204
        /\ DOMAIN new = DOMAIN coll \ {last'.id}
  /\ \A id \in 1..used : id \notin DOMAIN coll => id \notin DOMAIN new

C9_DbSetBeforeServing == last.route # "none" => db # Unset

\* C10: every stored student has the six required fields truthy and a
\* createdAt.
C10_StudentShape ==
  \A id \in DOMAIN students :
    /\ \A k \in StudentFields : Truthy(Field(students[id], k))
    /\ "createdAt" \in DOMAIN students[id]
====
